---- MODULE Spec2Model ----
(***************************************************************************)
(* The Calc and Grove interpreters of "COMP 443 S23 Project 4/starter":    *)
(*   calc_examples/integrated_parser/calc_lang.py  (Command.parse, eval)   *)
(*   calc_examples/separate_parser/calc_parse.py, calc_lang.py             *)
(*   grove_lang.py                                                         *)
(* A token is a sequence of one-character strings, a line is a sequence of *)
(* tokens (the result of s.strip().split()).  Parse routines are operators *)
(* that return either a node or the exception the Python code raises.      *)
(***************************************************************************)
EXTENDS Integers, Sequences, FiniteSets, TLC

VARIABLES
    line,        \* tokens of the command line being processed
    pc,          \* calc.py main: "read" | "exited" | "crashed";
                 \* match_parens: "entry" | "loop" | "done"
    cmd,         \* result of integrated calc Command.parse(line)
    sepCmd,      \* result of separate calc parse(line)
    groveCmd,    \* result of Grove Command.parse(line)
    mp,          \* result of Expression.match_parens(line)
    context,     \* calc_lang.context        (integrated calc)
    var_table,   \* calc_lang.var_table      (separate-parser calc)
    gcontext,    \* grove_lang.context       (Grove)
    out,         \* outcome of the last integrated calc command
    sepOut,      \* outcome of the last separate-parser calc command
    groveOut,    \* outcome of the last Grove command
    n,           \* number of commands run in this session
    lastSet,     \* history: name -> value computed by its latest set (integrated)
    sepLastSet,  \* history: the same for the separate parser
    scn,         \* history: how many leading commands equal the scenario so far
    scnOut,      \* history: integrated outcomes of the scenario prefix
    scnSepOut,   \* history: separate-parser outcomes of the scenario prefix
    groveExited, \* the Grove process has ended (sys.exit)
    dialect,     \* the copy of match_parens being scanned: "calc" | "grove"
    scanI,       \* match_parens: the loop index i
    depth,       \* match_parens: the depth counter
    reported     \* number of errors calc.py main has reported

vars == <<line, pc, cmd, sepCmd, groveCmd, mp, context, var_table, gcontext,
          out, sepOut, groveOut, n, lastSet, sepLastSet, scn, scnOut, scnSepOut,
          groveExited, dialect, scanI, depth, reported>>

-----------------------------------------------------------------------------
(* Characters (the ASCII part of str.isdigit / isalpha / isalnum) *)

DigitChars == <<"0", "1", "2", "3", "4", "5", "6", "7", "8", "9">>

IsDigitChar(c) == \E d \in 1..10 : DigitChars[d] = c

DigitVal(c) == (CHOOSE d \in 1..10 : DigitChars[d] = c) - 1

AlphaChars == {"a", "b", "c", "d", "e", "f", "g", "h", "i", "j", "k", "l", "m",
               "n", "o", "p", "q", "r", "s", "t", "u", "v", "w", "x", "y", "z"}

IsAlphaChar(c) == c \in AlphaChars

\* str.isdigit(): non-empty and every character a digit
isdigit(t) == Len(t) > 0 /\ \A i \in 1..Len(t) : IsDigitChar(t[i])

\* str.isalpha()
isalpha(t) == Len(t) > 0 /\ \A i \in 1..Len(t) : IsAlphaChar(t[i])

\* str.isalnum()
isalnum(t) == Len(t) > 0 /\ \A i \in 1..Len(t) : IsAlphaChar(t[i]) \/ IsDigitChar(t[i])

\* str.replace('_', 'a')
replace_underscore(t) == [i \in 1..Len(t) |-> IF t[i] = "_" THEN "a" ELSE t[i]]

\* int() of an all-digit token
RECURSIVE DecimalValue(_)
DecimalValue(t) ==
    IF Len(t) = 0 THEN 0
    ELSE 10 * DecimalValue(SubSeq(t, 1, Len(t) - 1)) + DigitVal(t[Len(t)])

-----------------------------------------------------------------------------
(* Python slicing of a list, 0-based, tokens[lo:hi] and tokens[lo:] *)

Min(a, b) == IF a < b THEN a ELSE b
Max(a, b) == IF a > b THEN a ELSE b

PySlice(s, lo, hi) == SubSeq(s, Max(lo, 0) + 1, Min(hi, Len(s)))

PyFrom(s, lo) == SubSeq(s, Max(lo, 0) + 1, Len(s))

\* tokens[1:-1]
PyInner(s) == SubSeq(s, 2, Len(s) - 1)

-----------------------------------------------------------------------------
(* Tokens *)

LP == <<"(">>
RP == <<")">>
PLUS == <<"+">>
MINUS == <<"-">>
EQ == <<"=">>
DOT == <<".">>
kwSet == <<"s", "e", "t">>
kwCall == <<"c", "a", "l", "l">>
kwNew == <<"n", "e", "w">>
kwQuit == <<"q", "u", "i", "t">>
kwExit == <<"e", "x", "i", "t">>
kwImport == <<"i", "m", "p", "o", "r", "t">>

-----------------------------------------------------------------------------
(* Results of parse routines: a node, or the exception raised *)

NoNode == [type |-> "NoNode"]

Ok(node) == [ok |-> TRUE, node |-> node, exc |-> "none"]

Raise(e) == [ok |-> FALSE, node |-> NoNode, exc |-> e]

CalcParseException == "CalcParseException"
CalcEvalException == "CalcEvalException"
GroveParseException == "GroveParseException"
GroveEvalException == "GroveEvalException"

-----------------------------------------------------------------------------
(* Expression.match_parens: the scan of calc_lang.py and grove_lang.py *)

\* mutant: a nested ( is not counted
DepthAfter_flat(before, token) ==
    IF token = LP /\ before = 0 THEN 1
    ELSE IF token = RP THEN before - 1
    ELSE before

\* the depth counter after one token of the scan, from its value before
DepthAfter(before, token) ==
    IF token = LP THEN before + 1
    ELSE IF token = RP THEN before - 1
    ELSE before

\* the for loop, from 0-based index i with the depth reached before it:
\* the index returned, or -1 when the loop ends without returning
RECURSIVE ScanFrom(_, _, _)
ScanFrom(tokens, i, before) ==
    IF i >= Len(tokens) THEN -1
    ELSE LET d == DepthAfter(before, tokens[i + 1])
         IN IF d = 0 THEN i ELSE ScanFrom(tokens, i + 1, d)

\* [ok, idx, exc]; exc is the parse exception of the calling dialect
match_parens(tokens, ParseException) ==
    IF Len(tokens) < 2 THEN [ok |-> FALSE, idx |-> -1, exc |-> ParseException]
    ELSE IF tokens[1] # LP THEN [ok |-> FALSE, idx |-> -1, exc |-> ParseException]
    ELSE LET r == ScanFrom(tokens, 0, 0)
         IN IF r >= 0 THEN [ok |-> TRUE, idx |-> r, exc |-> "none"]
            ELSE [ok |-> FALSE, idx |-> -1, exc |-> ParseException]

-----------------------------------------------------------------------------
(* Integrated calc parser: calc_examples/integrated_parser/calc_lang.py *)

Number(num) == [type |-> "Number", num |-> num]
Name(name) == [type |-> "Name", name |-> name]
Add(first, second) == [type |-> "Add", first |-> first, second |-> second]
Subtract(first, second) == [type |-> "Subtract", first |-> first, second |-> second]
Set(name, value) == [type |-> "Set", name |-> name, value |-> value]

Number_parse(tokens) ==
    IF Len(tokens) # 1 THEN Raise(CalcParseException)
    ELSE IF ~isdigit(tokens[1]) THEN Raise(CalcParseException)
    ELSE Ok(Number(DecimalValue(tokens[1])))

Name_parse(tokens) ==
    IF Len(tokens) # 1 THEN Raise(CalcParseException)
    ELSE IF ~isalpha(tokens[1]) THEN Raise(CalcParseException)
    ELSE Ok(Name(tokens[1]))

RECURSIVE Expression_parse(_)

\* mutant: the second group ends at its matching ), the tokens after it ignored
Binary_parse_slack(tokens, op, kind) ==
    IF Len(tokens) < 7 THEN Raise(CalcParseException)
    ELSE IF tokens[1] # op \/ tokens[2] # LP THEN Raise(CalcParseException)
    ELSE LET m == match_parens(PyFrom(tokens, 1), CalcParseException)
         IN IF ~m.ok THEN Raise(CalcParseException)
            ELSE LET cut == m.idx + 1
                     first == Expression_parse(PySlice(tokens, 2, cut))
                     rest == PyFrom(tokens, cut + 1)
                     m2 == match_parens(rest, CalcParseException)
                 IN IF ~first.ok \/ ~m2.ok THEN Raise(CalcParseException)
                    ELSE LET second == Expression_parse(PySlice(rest, 1, m2.idx))
                         IN IF ~second.ok THEN Raise(CalcParseException)
                            ELSE Ok([type |-> kind, first |-> first.node,
                                     second |-> second.node])

\* Add.parse and Subtract.parse differ only in the operator token and the node
Binary_parse(tokens, op, kind) ==
    IF Len(tokens) < 7 THEN Raise(CalcParseException)
    ELSE IF tokens[1] # op \/ tokens[2] # LP THEN Raise(CalcParseException)
    ELSE LET m == match_parens(PyFrom(tokens, 1), CalcParseException)
         IN IF ~m.ok THEN Raise(CalcParseException)
            ELSE LET cut == m.idx + 1
                     first == Expression_parse(PySlice(tokens, 2, cut))
                     rest == PyFrom(tokens, cut + 1)
                 IN IF ~first.ok THEN Raise(CalcParseException)
                    ELSE IF Len(rest) < 3 THEN Raise(CalcParseException)
                    ELSE IF rest[1] # LP \/ rest[Len(rest)] # RP
                         THEN Raise(CalcParseException)
                    ELSE LET second == Expression_parse(PyInner(rest))
                         IN IF ~second.ok THEN Raise(CalcParseException)
                            ELSE Ok([type |-> kind, first |-> first.node,
                                     second |-> second.node])

Add_parse(tokens) == Binary_parse(tokens, PLUS, "Add")

Subtract_parse(tokens) == Binary_parse(tokens, MINUS, "Subtract")

\* Expression.__subclasses__() in definition order: Add, Subtract, Number, Name
Expression_parse(tokens) ==
    LET a == Add_parse(tokens)
    IN IF a.ok THEN a
       ELSE LET s == Subtract_parse(tokens)
            IN IF s.ok THEN s
               ELSE LET num == Number_parse(tokens)
                    IN IF num.ok THEN num
                       ELSE LET nm == Name_parse(tokens)
                            IN IF nm.ok THEN nm
                               ELSE Raise(CalcParseException)

Set_parse(tokens) ==
    IF Len(tokens) < 4 THEN Raise(CalcParseException)
    ELSE IF tokens[1] # kwSet THEN Raise(CalcParseException)
    ELSE LET name == Name_parse(<<tokens[2]>>)
         IN IF ~name.ok THEN Raise(CalcParseException)
            ELSE IF tokens[3] # EQ THEN Raise(CalcParseException)
            ELSE LET value == Expression_parse(PyFrom(tokens, 3))
                 IN IF ~value.ok THEN Raise(CalcParseException)
                    ELSE Ok(Set(name.node, value.node))

Statement_parse(tokens) == Set_parse(tokens)

\* Command.parse after s.strip().split()
Command_parse(tokens) ==
    LET stmt == Statement_parse(tokens)
    IN IF stmt.ok THEN stmt
       ELSE LET expr == Expression_parse(tokens)
            IN IF expr.ok THEN expr
               ELSE Raise(CalcParseException)

-----------------------------------------------------------------------------
(* Separate calc parser: calc_examples/separate_parser/calc_parse.py *)

Num(val) == [type |-> "Num", val |-> val]
Sep_Name(val) == [type |-> "Name", val |-> val]
Addition(left, right) == [type |-> "Addition", left |-> left, right |-> right]
Subtraction(left, right) == [type |-> "Subtraction", left |-> left, right |-> right]
Stmt(name, expr) == [type |-> "Stmt", name |-> name, expr |-> expr]

\* the token without a leading sign character
Unsigned(s) ==
    IF Len(s) > 0 /\ s[1] \in {"+", "-"} THEN SubSeq(s, 2, Len(s)) ELSE s

\* the digits of a token, underscores dropped
RECURSIVE DropUnderscores(_)
DropUnderscores(s) ==
    IF Len(s) = 0 THEN <<>>
    ELSE IF s[1] = "_" THEN DropUnderscores(Tail(s))
    ELSE <<s[1]>> \o DropUnderscores(Tail(s))

\* is_int: int(s) succeeds: optional sign, digits, single underscores between digits
is_int(s) ==
    LET b == Unsigned(s)
    IN /\ Len(b) > 0
       /\ \A i \in 1..Len(b) : IsDigitChar(b[i]) \/ b[i] = "_"
       /\ IsDigitChar(b[1]) /\ IsDigitChar(b[Len(b)])
       /\ \A i \in 1..(Len(b) - 1) : ~(b[i] = "_" /\ b[i + 1] = "_")

\* int(s) for a token that is_int accepts
int(s) ==
    LET v == DecimalValue(DropUnderscores(Unsigned(s)))
    IN IF s[1] = "-" THEN 0 - v ELSE v

SepOk(node, rest) == [ok |-> TRUE, node |-> node, rest |-> rest, exc |-> "none"]

SepRaise(e) == [ok |-> FALSE, node |-> NoNode, rest |-> <<>>, exc |-> e]

\* is_expr(x): x is an Expr (everything but Stmt)
is_expr(x) == x.type # "Stmt"

\* expect(tokens[k], expected) on 0-based k: the exception raised, or "none"
Expect(tokens, k, expected) ==
    IF k >= Len(tokens) THEN "IndexError"
    ELSE IF tokens[k + 1] # expected THEN "ValueError"
    ELSE "none"

RECURSIVE parse_tokens(_)

\* the '+' and '-' branches of parse_tokens
Sep_Binary(tokens, kind) ==
    IF Len(tokens) < 7 THEN SepRaise("ValueError")
    ELSE IF Expect(tokens, 1, LP) # "none" THEN SepRaise(Expect(tokens, 1, LP))
    ELSE LET l == parse_tokens(PyFrom(tokens, 2))
         IN IF ~l.ok THEN l
            ELSE IF ~is_expr(l.node) THEN SepRaise("ValueError")
            ELSE IF Expect(l.rest, 0, RP) # "none" THEN SepRaise(Expect(l.rest, 0, RP))
            ELSE IF Expect(l.rest, 1, LP) # "none" THEN SepRaise(Expect(l.rest, 1, LP))
            ELSE LET r == parse_tokens(PyFrom(l.rest, 2))
                 IN IF ~r.ok THEN r
                    ELSE IF ~is_expr(r.node) THEN SepRaise("ValueError")
                    ELSE IF Expect(r.rest, 0, RP) # "none"
                         THEN SepRaise(Expect(r.rest, 0, RP))
                    ELSE SepOk([type |-> kind, left |-> l.node, right |-> r.node],
                               PyFrom(r.rest, 1))

parse_tokens(tokens) ==
    IF ~(Len(tokens) > 0) THEN SepRaise("ValueError")
    ELSE LET start == tokens[1]
         IN IF is_int(start) THEN SepOk(Num(int(start)), PyFrom(tokens, 1))
            ELSE IF start = PLUS THEN Sep_Binary(tokens, "Addition")
            ELSE IF start = MINUS THEN Sep_Binary(tokens, "Subtraction")
            ELSE IF start = kwSet THEN
                IF Len(tokens) < 4 THEN SepRaise("ValueError")
                ELSE IF ~isalpha(tokens[2]) THEN SepRaise("ValueError")
                ELSE IF Expect(tokens, 2, EQ) # "none" THEN SepRaise(Expect(tokens, 2, EQ))
                ELSE LET e == parse_tokens(PyFrom(tokens, 3))
                     IN IF ~e.ok THEN e
                        ELSE IF ~is_expr(e.node) THEN SepRaise("ValueError")
                        ELSE SepOk(Stmt(Sep_Name(tokens[2]), e.node), e.rest)
            ELSE IF isalpha(start) THEN SepOk(Sep_Name(start), PyFrom(tokens, 1))
            ELSE SepRaise("ValueError")

\* parse(s) after s.strip().split()
parse(tokens) ==
    LET r == parse_tokens(tokens)
    IN IF ~r.ok THEN Raise(r.exc)
       ELSE IF Len(r.rest) # 0 THEN Raise("ValueError")
       ELSE Ok(r.node)

-----------------------------------------------------------------------------
(* Grove parser: grove_lang.py *)

protected_names == {kwSet, kwCall, kwNew, kwQuit, kwExit, kwImport}

Grove_Number(num) == [type |-> "Number", num |-> num]
Grove_Name(name) == [type |-> "Name", name |-> name]
StringLiteral(string) == [type |-> "StringLiteral", string |-> string]
Call(obj, met, expr) == [type |-> "Call", obj |-> obj, met |-> met, expr |-> expr]
Assignment(name, value) == [type |-> "Assignment", name |-> name, value |-> value]
Import(names) == [type |-> "Import", names |-> names]
Terminate == [type |-> "Terminate"]
Object(names) == [type |-> "Object", names |-> names]

\* s[k] on a 0-based index k is defined
InRange(s, k) == 0 <= k /\ k < Len(s)

Grove_Number_parse(tokens) ==
    IF Len(tokens) # 1 THEN Raise(GroveParseException)
    ELSE IF ~isdigit(tokens[1]) THEN Raise(GroveParseException)
    ELSE Ok(Grove_Number(DecimalValue(tokens[1])))

\* mutant: the reserved words are not tested
Grove_Name_parse_unreserved(tokens) ==
    IF Len(tokens) # 1 THEN Raise(GroveParseException)
    ELSE IF ~isalnum(replace_underscore(tokens[1])) THEN Raise(GroveParseException)
    ELSE IF FALSE \/ tokens[1][1] = "_" THEN Raise(GroveParseException)
    ELSE Ok(Grove_Name(tokens[1]))

\* the second test is "not tokens[0][0].isalpha or tokens[0][0] == '_'": the
\* method object isalpha is never called and is true, so only '_' is tested
Grove_Name_parse(tokens) ==
    IF Len(tokens) # 1 THEN Raise(GroveParseException)
    ELSE IF ~isalnum(replace_underscore(tokens[1])) THEN Raise(GroveParseException)
    ELSE IF FALSE \/ tokens[1][1] = "_" THEN Raise(GroveParseException)
    ELSE IF tokens[1] \in protected_names THEN Raise(GroveParseException)
    ELSE Ok(Grove_Name(tokens[1]))

\* Name.parse applied to a string instead of a list (Import.parse): len() is the
\* number of characters, and tokens[0] of a one-character string is the string
Grove_Name_parse_string(s) ==
    IF Len(s) # 1 THEN Raise(GroveParseException)
    ELSE Grove_Name_parse(<<s>>)

\* tokens[0][len(tokens[0])] is evaluated when the token starts with a quote
StringLiteral_parse(tokens) ==
    IF Len(tokens) # 1 THEN Raise(GroveParseException)
    ELSE IF tokens[1][1] # "\"" THEN Raise(GroveParseException)
    ELSE IF ~InRange(tokens[1], Len(tokens[1])) THEN Raise("IndexError")
    ELSE IF tokens[1][Len(tokens[1]) + 1] # "\"" THEN Raise(GroveParseException)
    ELSE IF \E i \in 2..(Len(tokens[1]) - 1) : tokens[1][i] = "\""
         THEN Raise(GroveParseException)
    ELSE Ok(StringLiteral(tokens[1]))

\* len() of the filter object raises TypeError before any name is parsed
Object_parse(tokens) ==
    IF Len(tokens) # 2 THEN Raise(GroveParseException)
    ELSE IF tokens[1] # kwNew THEN Raise(GroveParseException)
    ELSE Raise("TypeError")

\* Addition has no parse of its own: Expression.parse with no subclasses
Grove_Addition_parse(tokens) == Raise(GroveParseException)

RECURSIVE Grove_Expression_parse(_)

\* the argument loop of Call.parse, at loop value i with the current start
RECURSIVE CallArgs(_, _, _, _, _)
CallArgs(tokens, i, closingparens, start, expr) ==
    IF i > closingparens THEN [ok |-> TRUE, expr |-> expr, exc |-> "none"]
    ELSE LET e == Grove_Expression_parse(PySlice(tokens, start, i))
         IN IF e.ok THEN CallArgs(tokens, i + 1, closingparens, i, Append(expr, e.node))
            ELSE IF e.exc = GroveParseException
                 THEN CallArgs(tokens, i + 1, closingparens, start, expr)
            ELSE [ok |-> FALSE, expr |-> <<>>, exc |-> e.exc]

Call_parse(tokens) ==
    IF Len(tokens) < 5 THEN Raise(GroveParseException)
    ELSE IF tokens[1] # kwCall THEN Raise(GroveParseException)
    ELSE LET m == match_parens(PyFrom(tokens, 2), GroveParseException)
         IN IF ~m.ok THEN Raise(m.exc)
            ELSE LET closingparens == m.idx + 2
                 IN IF closingparens < 5 THEN Raise(GroveParseException)
                    ELSE LET obj == Grove_Name_parse(<<tokens[3]>>)
                             met == Grove_Name_parse(<<tokens[4]>>)
                             args == CallArgs(tokens, 5, closingparens, 4, <<>>)
                         IN IF ~obj.ok THEN Raise(GroveParseException)
                            ELSE IF ~met.ok THEN Raise(GroveParseException)
                            ELSE IF ~args.ok THEN Raise(args.exc)
                            ELSE Ok(Call(obj.node, met.node, args.expr))

\* a variant's result ends the dispatch unless it raised GroveParseException
Dispatched(r) == r.ok \/ r.exc # GroveParseException

\* Expression.__subclasses__(): Number, StringLiteral, Object, Call, Addition, Name
Grove_Expression_parse(tokens) ==
    LET r1 == Grove_Number_parse(tokens)
        r2 == StringLiteral_parse(tokens)
        r3 == Object_parse(tokens)
        r4 == Call_parse(tokens)
        r5 == Grove_Addition_parse(tokens)
        r6 == Grove_Name_parse(tokens)
    IN IF Dispatched(r1) THEN r1
       ELSE IF Dispatched(r2) THEN r2
       ELSE IF Dispatched(r3) THEN r3
       ELSE IF Dispatched(r4) THEN r4
       ELSE IF Dispatched(r5) THEN r5
       ELSE IF Dispatched(r6) THEN r6
       ELSE Raise(GroveParseException)

Assignment_parse(tokens) ==
    IF Len(tokens) < 4 THEN Raise(GroveParseException)
    ELSE IF tokens[1] # kwSet THEN Raise(GroveParseException)
    ELSE LET name == Grove_Name_parse(<<tokens[2]>>)
         IN IF ~name.ok THEN Raise(GroveParseException)
            ELSE IF tokens[3] # EQ THEN Raise(GroveParseException)
            ELSE LET value == Grove_Expression_parse(PyFrom(tokens, 3))
                 IN IF value.ok THEN Ok(Assignment(name.node, value.node))
                    ELSE IF value.exc = GroveParseException
                         THEN Raise(GroveParseException)
                    ELSE Raise(value.exc)

\* the while loop of Import.parse at 0-based index i; the handler's message
\* reads tokens[i+1] again, so a missing token raises IndexError from the handler
RECURSIVE ImportNames(_, _, _)
ImportNames(tokens, i, names) ==
    IF ~(i < Len(tokens)) THEN Ok(Import(names))
    ELSE IF tokens[i + 1] # DOT THEN Raise(GroveParseException)
    ELSE IF ~InRange(tokens, i + 1) THEN Raise("IndexError")
    ELSE LET nm == Grove_Name_parse_string(tokens[i + 2])
         IN IF ~nm.ok THEN Raise(GroveParseException)
            ELSE ImportNames(tokens, i + 2, Append(names, nm.node))

Import_parse(tokens) ==
    IF Len(tokens) < 2 THEN Raise(GroveParseException)
    ELSE IF tokens[1] # kwImport THEN Raise(GroveParseException)
    ELSE LET first == Grove_Name_parse_string(tokens[2])
         IN IF ~first.ok THEN Raise(GroveParseException)
            ELSE ImportNames(tokens, 2, <<first.node>>)

\* mutant: only quit ends the session
Terminate_parse_quit(tokens) ==
    IF Len(tokens) # 1 THEN Raise(GroveParseException)
    ELSE IF tokens[1] # kwQuit THEN Raise(GroveParseException)
    ELSE Ok(Terminate)

Terminate_parse(tokens) ==
    IF Len(tokens) # 1 THEN Raise(GroveParseException)
    ELSE IF tokens[1] # kwQuit /\ tokens[1] # kwExit THEN Raise(GroveParseException)
    ELSE Ok(Terminate)

\* Statement.__subclasses__(): Assignment, Import, Terminate
Grove_Statement_parse(tokens) ==
    LET r1 == Assignment_parse(tokens)
        r2 == Import_parse(tokens)
        r3 == Terminate_parse(tokens)
    IN IF Dispatched(r1) THEN r1
       ELSE IF Dispatched(r2) THEN r2
       ELSE IF Dispatched(r3) THEN r3
       ELSE Raise(GroveParseException)

Grove_Command_parse(tokens) ==
    LET stmt == Grove_Statement_parse(tokens)
    IN IF Dispatched(stmt) THEN stmt
       ELSE LET expr == Grove_Expression_parse(tokens)
            IN IF Dispatched(expr) THEN expr
               ELSE Raise(GroveParseException)

-----------------------------------------------------------------------------
(* Outcomes of evaluating a command: a value, None, or an exception.       *)
(* arg is the name an "undefined" exception reports.                       *)

Value(v) == [kind |-> "value", val |-> v, exc |-> "none", arg |-> <<>>]

NoneOut(dflt) == [kind |-> "none", val |-> dflt, exc |-> "none", arg |-> <<>>]

Raised(dflt, e, a) == [kind |-> "raise", val |-> dflt, exc |-> e, arg |-> a]

\* context[k] = v
Bind(ctx, k, v) == [j \in DOMAIN ctx \cup {k} |-> IF j = k THEN v ELSE ctx[j]]

-----------------------------------------------------------------------------
(* Integrated calc evaluator: calc_examples/integrated_parser/calc_lang.py *)

Number_eval(node) == Value(node.num)

\* mutant: an unbound name evaluates to a default value
Name_eval_default(node, ctx) ==
    IF node.name \in DOMAIN ctx THEN Value(ctx[node.name])
    ELSE Value(0)

Name_eval(node, ctx) ==
    IF node.name \in DOMAIN ctx THEN Value(ctx[node.name])
    ELSE Raised(0, CalcEvalException, node.name)

RECURSIVE Expression_eval(_, _)

\* mutant: Subtract computes second - first
Expression_eval_swapped(node, ctx) ==
    IF node.type = "Number" THEN Number_eval(node)
    ELSE IF node.type = "Name" THEN Name_eval(node, ctx)
    ELSE LET first == Expression_eval(node.first, ctx)
         IN IF first.kind = "raise" THEN first
            ELSE LET second == Expression_eval(node.second, ctx)
                 IN IF second.kind = "raise" THEN second
                    ELSE IF node.type = "Add" THEN Value(first.val + second.val)
                    ELSE Value(second.val - first.val)

\* self.first.eval() + self.second.eval(), and the same with -
Expression_eval(node, ctx) ==
    IF node.type = "Number" THEN Number_eval(node)
    ELSE IF node.type = "Name" THEN Name_eval(node, ctx)
    ELSE LET first == Expression_eval(node.first, ctx)
         IN IF first.kind = "raise" THEN first
            ELSE LET second == Expression_eval(node.second, ctx)
                 IN IF second.kind = "raise" THEN second
                    ELSE IF node.type = "Add" THEN Value(first.val + second.val)
                    ELSE Value(first.val - second.val)

\* mutant: the context is replaced by the one binding
Set_eval_clobber(node, ctx) ==
    LET value == Expression_eval(node.value, ctx)
    IN IF value.kind = "raise" THEN [out |-> value, ctx |-> ctx]
       ELSE [out |-> NoneOut(0), ctx |-> [j \in {node.name.name} |-> value.val]]

\* context[self.name.name] = self.value.eval(): the outcome and the context left
Set_eval(node, ctx) ==
    LET value == Expression_eval(node.value, ctx)
    IN IF value.kind = "raise" THEN [out |-> value, ctx |-> ctx]
       ELSE [out |-> NoneOut(0), ctx |-> Bind(ctx, node.name.name, value.val)]

\* mutant: an expression that raises on an unbound name binds the name to 0
Command_eval_autobind(node, ctx) ==
    IF node.type = "Set" THEN Set_eval(node, ctx)
    ELSE LET value == Expression_eval(node, ctx)
         IN [out |-> value,
             ctx |-> IF value.kind = "raise" THEN Bind(ctx, value.arg, 0) ELSE ctx]

\* Command.eval dispatches on the node: only Set.eval writes the context
Command_eval(node, ctx) ==
    IF node.type = "Set" THEN Set_eval(node, ctx)
    ELSE [out |-> Expression_eval(node, ctx), ctx |-> ctx]

\* the body of the loop of calc.py main, x = Command.parse(s).eval(), given
\* the result c of Command.parse(s): a parse exception ends the command
Calc_run(c, ctx) ==
    IF c.ok THEN Command_eval(c.node, ctx)
    ELSE [out |-> Raised(0, c.exc, <<>>), ctx |-> ctx]

-----------------------------------------------------------------------------
(* Separate-parser calc evaluator: calc_examples/separate_parser/calc_lang.py *)

RECURSIVE Expr_eval(_, _)
Expr_eval(node, tbl) ==
    IF node.type = "Num" THEN Value(node.val)
    ELSE IF node.type = "Name" THEN
        IF node.val \in DOMAIN tbl THEN Value(tbl[node.val])
        ELSE Raised(0, "KeyError", node.val)
    ELSE LET left == Expr_eval(node.left, tbl)
         IN IF left.kind = "raise" THEN left
            ELSE LET right == Expr_eval(node.right, tbl)
                 IN IF right.kind = "raise" THEN right
                    ELSE IF node.type = "Addition" THEN Value(left.val + right.val)
                    ELSE Value(left.val - right.val)

Stmt_eval(node, tbl) ==
    LET val == Expr_eval(node.expr, tbl)
    IN IF val.kind = "raise" THEN [out |-> val, ctx |-> tbl]
       ELSE [out |-> NoneOut(0), ctx |-> Bind(tbl, node.name.val, val.val)]

Sep_eval(node, tbl) ==
    IF node.type = "Stmt" THEN Stmt_eval(node, tbl)
    ELSE [out |-> Expr_eval(node, tbl), ctx |-> tbl]

\* the body of the test loop of calc_parse.py, root = parse(cmd); root.eval(),
\* given the result c of parse(cmd)
Sep_run(c, tbl) ==
    IF c.ok THEN Sep_eval(c.node, tbl)
    ELSE [out |-> Raised(0, c.exc, <<>>), ctx |-> tbl]

-----------------------------------------------------------------------------
(* Grove evaluator: grove_lang.py.  Python values held by Grove's context. *)

PyNone == [py |-> "NoneType", num |-> 0, mod |-> <<>>, items |-> <<>>]
PyInt(k) == [py |-> "int", num |-> k, mod |-> <<>>, items |-> <<>>]
PyStr(string) == [py |-> "str", num |-> 0, mod |-> string, items |-> <<>>]
PyType(t) == [py |-> "type", num |-> 0, mod |-> <<t>>, items |-> <<>>]
PyModule(name) == [py |-> "module", num |-> 0, mod |-> name, items |-> <<>>]
\* the tuple (type(value), value)
PyTagged(value) ==
    [py |-> "tuple", num |-> 0, mod |-> <<>>, items |-> <<PyType(value.py), value>>]

\* '.'.join([name.name for name in names])
RECURSIVE JoinNames(_)
JoinNames(names) ==
    IF Len(names) = 0 THEN <<>>
    ELSE IF Len(names) = 1 THEN names[1].name
    ELSE names[1].name \o <<".">> \o JoinNames(Tail(names))

Grove_Name_eval(node, ctx) ==
    IF node.name \in DOMAIN ctx THEN Value(ctx[node.name])
    ELSE Raised(PyNone, GroveEvalException, node.name)

\* the expressions a parse can return are Number and Name
Grove_Expression_eval(node, ctx) ==
    IF node.type = "Number" THEN Value(PyInt(node.num))
    ELSE IF node.type = "StringLiteral" THEN Value(PyStr(node.string))
    ELSE Grove_Name_eval(node, ctx)

\* mutant: the target is bound to None when the value fails
Assignment_eval_binds(node, ctx) ==
    LET value == Grove_Expression_eval(node.value, ctx)
    IN IF value.kind = "raise"
       THEN [out |-> value, ctx |-> Bind(ctx, node.name.name, PyTagged(PyNone))]
       ELSE [out |-> NoneOut(PyNone),
             ctx |-> Bind(ctx, node.name.name, PyTagged(value.val))]

Assignment_eval(node, ctx) ==
    LET value == Grove_Expression_eval(node.value, ctx)
    IN IF value.kind = "raise" THEN [out |-> value, ctx |-> ctx]
       ELSE [out |-> NoneOut(PyNone),
             ctx |-> Bind(ctx, node.name.name, PyTagged(value.val))]

\* importable: whether importlib.import_module finds the module.  When the
\* name is already bound the local variable module is never assigned.
Import_eval(node, ctx, importable) ==
    LET nameString == JoinNames(node.names)
    IN IF nameString \notin DOMAIN ctx THEN
           IF importable
           THEN [out |-> NoneOut(PyNone), ctx |-> Bind(ctx, nameString, PyModule(nameString))]
           ELSE [out |-> Raised(PyNone, GroveEvalException, <<>>), ctx |-> ctx]
       ELSE [out |-> Raised(PyNone, "UnboundLocalError", <<>>), ctx |-> ctx]

\* sys.exit()
Terminate_eval(ctx) == [out |-> Raised(PyNone, "SystemExit", <<>>), ctx |-> ctx]

Grove_Command_eval(node, ctx, importable) ==
    IF node.type = "Assignment" THEN Assignment_eval(node, ctx)
    ELSE IF node.type = "Import" THEN Import_eval(node, ctx, importable)
    ELSE IF node.type = "Terminate" THEN Terminate_eval(ctx)
    ELSE [out |-> Grove_Expression_eval(node, ctx), ctx |-> ctx]

\* root = Command.parse(ln); root.eval()   (test_suite/check_errors.py), given
\* the result c of Command.parse(ln)
Grove_run(c, ctx, importable) ==
    IF c.ok THEN Grove_Command_eval(c.node, ctx, importable)
    ELSE [out |-> Raised(PyNone, c.exc, <<>>), ctx |-> ctx]

-----------------------------------------------------------------------------
(* Bounds and input sets *)

MaxOps == 2        \* operators in a generated well-formed parse line
MaxShort == 3      \* length of the exhaustively enumerated short lines
MaxEvalOps == 2    \* operators in a generated expression to evaluate
MaxCmds == 4       \* commands in a session
MaxSlice == 5      \* length of a token slice given to match_parens

t38 == <<"3", "8">>
t22 == <<"2", "2">>
t3 == <<"3">>
t5 == <<"5">>
t7 == <<"7">>
t007 == <<"0", "0", "7">>
tNeg5 == <<"-", "5">>
t1_0 == <<"1", "_", "0">>
t1a == <<"1", "a">>
tUa == <<"_", "a">>
tA_1 == <<"a", "_", "1">>
tStr == <<"\"", "h", "i", "\"">>
tOpenStr == <<"\"", "h", "i">>
tQuoteInStr == <<"\"", "h", "\"", "i", "\"">>
tNotAlpha == <<"n", "o", "t", "-", "a", "l", "p", "h", "a", "1">>
tDotted == <<"a", ".", "b">>
tA == <<"a">>
\* the input line ":done", stripped and split
tDone == <<":", "d", "o", "n", "e">>
DoneLine == <<tDone>>
tB == <<"b">>
x == <<"x">>
foo == <<"f", "o", "o">>
bar == <<"b", "a", "r">>
nope == <<"n", "o", "p", "e">>

\* all sequences over S of length at most k
SeqsUpTo(S, k) == UNION {[1..m -> S] : m \in 0..k}

\* the lines "op ( a ) ( b )"
BinLines(A, B) ==
    {<<op, LP>> \o a \o <<RP, LP>> \o b \o <<RP>> : op \in {PLUS, MINUS}, a \in A, b \in B}

\* well-formed expression lines with exactly k operators over the leaves
RECURSIVE ExprLines(_, _)
ExprLines(leaves, k) ==
    IF k = 0 THEN {<<t>> : t \in leaves}
    ELSE UNION {BinLines(ExprLines(leaves, i), ExprLines(leaves, k - 1 - i)) : i \in 0..(k - 1)}

ExprLinesUpTo(leaves, k) == UNION {ExprLines(leaves, i) : i \in 0..k}

SetLines(names, exprs) == {<<kwSet, nm, EQ>> \o e : nm \in names, e \in exprs}

\* one-token edits of a line
Mutations(l, toks) ==
    {SubSeq(l, 1, i - 1) \o SubSeq(l, i + 1, Len(l)) : i \in 1..Len(l)}
    \cup {SubSeq(l, 1, i - 1) \o <<t>> \o SubSeq(l, i, Len(l)) : i \in 1..(Len(l) + 1), t \in toks}
    \cup {SubSeq(l, 1, i - 1) \o <<t>> \o SubSeq(l, i + 1, Len(l)) : i \in 1..Len(l), t \in toks}

ShortToks == {LP, RP, PLUS, MINUS, EQ, DOT, kwSet, kwCall, kwNew, kwQuit, kwExit,
              kwImport, t007, tNeg5, t1_0, t1a, tUa, tA_1, tStr, tNotAlpha, tA, x}

MutToks == {LP, RP, PLUS, EQ, kwSet, kwQuit, t007, x, tStr}

\* expressions with fewer than ops operators over a number and a name, those
\* with ops operators over the name, and the set commands of both
WellFormedLines(ops) ==
    LET exprs == ExprLinesUpTo({t007, x}, ops - 1) \cup ExprLines({x}, ops)
    IN exprs \cup SetLines({x}, exprs)

GroveLines ==
    {<<kwImport, tA>>, <<kwImport, tA, DOT, tB>>, <<kwImport, tA, DOT, tB, DOT, x>>,
     <<kwQuit>>, <<kwExit>>, <<kwNew, x>>, <<kwNew, tDotted>>,
     <<kwCall, tA, tB, LP, t007, RP>>, <<kwCall, LP, tA, tB, RP>>,
     <<kwCall, tA, tB, LP, t007, RP, LP, x, RP>>,
     <<kwSet, x, EQ, tStr>>, <<kwSet, tA_1, EQ, tA>>, <<kwSet, t1a, EQ, t007>>,
     <<kwImport, foo>>, <<kwImport, foo, DOT, bar>>,
     <<tOpenStr>>, <<tQuoteInStr>>}

\* lines to parse: every short line, the well-formed lines and their edits
ParseLines(ops, short) ==
    LET formed == WellFormedLines(ops) \cup GroveLines
    IN SeqsUpTo(ShortToks, short) \cup formed
       \cup UNION {Mutations(l, MutToks) : l \in formed}

\* lines to evaluate: expressions and set commands over bound and unbound names
EvalLines(ops) ==
    LET exprs == ExprLinesUpTo({t7, foo, bar, nope}, ops)
    IN exprs \cup SetLines({foo, bar}, exprs)

EmptyEnv == [k \in {} |-> 0]

\* environments that set commands can leave
InitEnvs == UNION {[D -> {-3, 38}] : D \in SUBSET {foo, bar}}

\* the end-to-end scenario of calc_parse.py
Scenario ==
    << <<kwSet, foo, EQ, t38>>,
       <<foo>>,
       <<kwSet, bar, EQ, PLUS, LP, t22, RP, LP, foo, RP>>,
       <<bar>> >>

SessionLines ==
    {Scenario[i] : i \in 1..Len(Scenario)}
    \cup {<<nope>>, <<PLUS, LP, nope, RP, LP, t3, RP>>,
          <<PLUS, LP, foo, RP, LP, nope, RP>>,
          <<kwSet, foo, EQ, MINUS, LP, foo, RP, LP, bar, RP>>,
          <<kwSet, bar, EQ, nope>>,
          <<MINUS, LP, MINUS, LP, foo, RP, LP, bar, RP, RP, LP, t7, RP>>,
          <<kwSet, kwSet, EQ, t5>>, <<kwSet>>,
          <<kwSet, foo, EQ, tNeg5>>,
          <<t3, PLUS, t3>>, <<PLUS, LP, t5, RP, LP, t3, RP, foo>>, <<>>,
          <<kwImport, tA>>, <<tA>>, <<kwQuit>>, <<kwExit>>, <<kwQuit, x>>,
          DoneLine, <<tDone, x>>, <<kwSet, foo, EQ, nope>>}

\* the token slices of length at most len given to match_parens
ParenSlices(len) == SeqsUpTo({LP, RP, x}, len)

-----------------------------------------------------------------------------
(* State machine *)

Unparsed == [ok |-> FALSE, node |-> NoNode, exc |-> "unparsed"]

Idle(dflt) == [kind |-> "idle", val |-> dflt, exc |-> "none", arg |-> <<>>]

NotScanned == [ok |-> FALSE, idx |-> -1, exc |-> "none"]

ParseExceptionOf(d) == IF d = "calc" THEN CalcParseException ELSE GroveParseException

\* the interpreters after import, before any command, with calc environment
\* env; l and d are the slice and the copy a match_parens call is given
Start(env, l, d) ==
    /\ line = l
    /\ cmd = Unparsed /\ sepCmd = Unparsed /\ groveCmd = Unparsed
    /\ mp = NotScanned
    /\ context = env /\ var_table = env /\ gcontext = EmptyEnv
    /\ out = Idle(0) /\ sepOut = Idle(0) /\ groveOut = Idle(PyNone)
    /\ n = 0
    /\ lastSet = env /\ sepLastSet = env
    /\ scn = 0 /\ scnOut = <<>> /\ scnSepOut = <<>>
    /\ groveExited = FALSE
    /\ dialect = d /\ scanI = 0 /\ depth = 0
    /\ reported = 0

\* the except clause of calc.py main that reports the outcome o of a command
Main_report(o) ==
    IF o.kind # "raise" THEN "none"
    ELSE IF o.exc = CalcParseException THEN "Error Parsing"
    ELSE IF o.exc = CalcEvalException THEN "Error Evaluating"
    ELSE "uncaught"

\* mutant: the first error ends the loop
Main_pc_stop(o) ==
    IF o.kind = "raise" THEN "crashed" ELSE "read"

\* where calc.py main goes after a command: an exception of another class
\* than the two it catches leaves the loop
Main_pc(o) ==
    IF Main_report(o) = "uncaught" THEN "crashed" ELSE "read"

\* One command line read by the three interpreters, each against its own
\* environment: calc.py main (lines 14-24), the loop of calc_parse.py
\* (lines 112-114) and the loops of check_errors.py (lines 47-48).
RunCommand(l, importable) ==
    /\ pc = "read"
    /\ l # DoneLine
    /\ line' = l
    /\ n' = n + 1
    /\ \E c \in {Command_parse(l)} : \E r \in {Calc_run(c, context)} :
          /\ cmd' = c
          /\ out' = r.out
          /\ context' = r.ctx
          /\ reported' = IF Main_report(r.out) \in {"Error Parsing", "Error Evaluating"}
                         THEN reported + 1 ELSE reported
          /\ pc' = Main_pc(r.out)
          /\ lastSet' = IF c.ok /\ c.node.type = "Set" /\ r.out.kind = "none"
                        THEN Bind(lastSet, c.node.name.name,
                                  Expression_eval(c.node.value, context).val)
                        ELSE lastSet
          /\ scnOut' = IF scn = n /\ n < Len(Scenario) /\ l = Scenario[n + 1]
                       THEN Append(scnOut, r.out) ELSE scnOut
    /\ \E c \in {parse(l)} : \E r \in {Sep_run(c, var_table)} :
          /\ sepCmd' = c
          /\ sepOut' = r.out
          /\ var_table' = r.ctx
          /\ sepLastSet' = IF c.ok /\ c.node.type = "Stmt" /\ r.out.kind = "none"
                           THEN Bind(sepLastSet, c.node.name.val,
                                     Expr_eval(c.node.expr, var_table).val)
                           ELSE sepLastSet
          /\ scnSepOut' = IF scn = n /\ n < Len(Scenario) /\ l = Scenario[n + 1]
                          THEN Append(scnSepOut, r.out) ELSE scnSepOut
    /\ scn' = IF scn = n /\ n < Len(Scenario) /\ l = Scenario[n + 1] THEN n + 1 ELSE scn
    /\ IF groveExited
       THEN UNCHANGED <<groveCmd, groveOut, gcontext, groveExited>>
       ELSE \E c \in {Grove_Command_parse(l)} : \E r \in {Grove_run(c, gcontext, importable)} :
               /\ groveCmd' = c
               /\ groveOut' = r.out
               /\ gcontext' = r.ctx
               /\ groveExited' = (r.out.exc = "SystemExit")
    /\ UNCHANGED <<mp, dialect, scanI, depth>>

\* calc.py main reads ":done" and leaves the loop (line 15)
ReadDone(l) ==
    /\ pc = "read"
    /\ l = DoneLine
    /\ line' = l
    /\ pc' = "exited"
    /\ UNCHANGED <<cmd, sepCmd, groveCmd, mp, context, var_table, gcontext, out,
                   sepOut, groveOut, n, lastSet, sepLastSet, scn, scnOut, scnSepOut,
                   groveExited, dialect, scanI, depth, reported>>

\* mutant: the first token is not required to be (
ScanEnter_unchecked ==
    /\ pc = "entry"
    /\ IF Len(line) < 2
       THEN /\ mp' = [ok |-> FALSE, idx |-> -1, exc |-> ParseExceptionOf(dialect)]
            /\ pc' = "done"
            /\ UNCHANGED <<scanI, depth>>
       ELSE /\ depth' = 0
            /\ scanI' = 0
            /\ pc' = "loop"
            /\ UNCHANGED mp
    /\ UNCHANGED <<line, cmd, sepCmd, groveCmd, context, var_table, gcontext, out,
                   sepOut, groveOut, n, lastSet, sepLastSet, scn, scnOut, scnSepOut,
                   groveExited, dialect, reported>>

\* match_parens, entry checks (lines 63-66)
ScanEnter ==
    /\ pc = "entry"
    /\ IF Len(line) < 2 \/ line[1] # LP
       THEN /\ mp' = [ok |-> FALSE, idx |-> -1, exc |-> ParseExceptionOf(dialect)]
            /\ pc' = "done"
            /\ UNCHANGED <<scanI, depth>>
       ELSE /\ depth' = 0
            /\ scanI' = 0
            /\ pc' = "loop"
            /\ UNCHANGED mp
    /\ UNCHANGED <<line, cmd, sepCmd, groveCmd, context, var_table, gcontext, out,
                   sepOut, groveOut, n, lastSet, sepLastSet, scn, scnOut, scnSepOut,
                   groveExited, dialect, reported>>

\* match_parens, one iteration of the for loop (lines 67-73)
ScanStep ==
    /\ pc = "loop"
    /\ scanI < Len(line)
    /\ depth' = DepthAfter(depth, line[scanI + 1])
    /\ IF depth' = 0
       THEN /\ mp' = [ok |-> TRUE, idx |-> scanI, exc |-> "none"]
            /\ pc' = "done"
            /\ UNCHANGED scanI
       ELSE /\ scanI' = scanI + 1
            /\ UNCHANGED <<mp, pc>>
    /\ UNCHANGED <<line, cmd, sepCmd, groveCmd, context, var_table, gcontext, out,
                   sepOut, groveOut, n, lastSet, sepLastSet, scn, scnOut, scnSepOut,
                   groveExited, dialect, reported>>

\* match_parens, the loop ends without a return (line 75)
ScanFail ==
    /\ pc = "loop"
    /\ scanI >= Len(line)
    /\ mp' = [ok |-> FALSE, idx |-> -1, exc |-> ParseExceptionOf(dialect)]
    /\ pc' = "done"
    /\ UNCHANGED <<line, cmd, sepCmd, groveCmd, context, var_table, gcontext, out,
                   sepOut, groveOut, n, lastSet, sepLastSet, scn, scnOut, scnSepOut,
                   groveExited, dialect, scanI, depth, reported>>

\* a session: command lines read one after another
Init == pc = "read" /\ Start(EmptyEnv, <<>>, "calc")

Next ==
    \/ n < MaxCmds /\ \E l \in SessionLines, importable \in BOOLEAN : RunCommand(l, importable)
    \/ \E l \in SessionLines : ReadDone(l)

Spec == Init /\ [][Next]_vars

\* one line parsed (and evaluated) by a fresh interpreter
NextParse == n < 1 /\ \E l \in ParseLines(MaxOps, MaxShort) : RunCommand(l, FALSE)

SpecParse == Init /\ [][NextParse]_vars

\* one command evaluated in an environment earlier commands left
InitEval == pc = "read" /\ \E env \in InitEnvs : Start(env, <<>>, "calc")

NextEval == n < 1 /\ \E l \in EvalLines(MaxEvalOps) : RunCommand(l, FALSE)

SpecEval == InitEval /\ [][NextEval]_vars

\* one call of match_parens on a token slice
InitParens ==
    /\ pc = "entry"
    /\ \E l \in ParenSlices(MaxSlice), d \in {"calc", "grove"} : Start(EmptyEnv, l, d)

NextParens == ScanEnter \/ ScanStep \/ ScanFail

SpecParens == InitParens /\ [][NextParens]_vars

-----------------------------------------------------------------------------
(* The grammar of the calc dialect, stated by derivation (every split point *)
(* tried), independently of match_parens                                    *)

RECURSIVE IsExpr(_)
IsExpr(s) ==
    \/ Len(s) = 1 /\ (isdigit(s[1]) \/ isalpha(s[1]))
    \/ /\ Len(s) >= 7
       /\ s[1] \in {PLUS, MINUS} /\ s[2] = LP /\ s[Len(s)] = RP
       /\ \E k \in 3..(Len(s) - 4) :
            /\ s[k + 1] = RP /\ s[k + 2] = LP
            /\ IsExpr(SubSeq(s, 3, k))
            /\ IsExpr(SubSeq(s, k + 3, Len(s) - 1))

IsCmd(s) ==
    \/ IsExpr(s)
    \/ Len(s) >= 4 /\ s[1] = kwSet /\ isalpha(s[2]) /\ s[3] = EQ /\ IsExpr(SubSeq(s, 4, Len(s)))

\* the tree of a derivable expression
RECURSIVE TreeOf(_)
TreeOf(s) ==
    IF Len(s) = 1
    THEN IF isdigit(s[1]) THEN Number(DecimalValue(s[1])) ELSE Name(s[1])
    ELSE LET k == CHOOSE j \in 3..(Len(s) - 4) :
                    /\ s[j + 1] = RP /\ s[j + 2] = LP
                    /\ IsExpr(SubSeq(s, 3, j))
                    /\ IsExpr(SubSeq(s, j + 3, Len(s) - 1))
         IN [type |-> IF s[1] = PLUS THEN "Add" ELSE "Subtract",
             first |-> TreeOf(SubSeq(s, 3, k)),
             second |-> TreeOf(SubSeq(s, k + 3, Len(s) - 1))]

CmdTreeOf(s) ==
    IF IsExpr(s) THEN TreeOf(s)
    ELSE Set(Name(s[2]), TreeOf(SubSeq(s, 4, Len(s))))

\* C2: integrated Command.parse accepts a line iff the grammar derives the
\* whole line, returns the tree of the derivation, and raises
\* CalcParseException for every other line
C2_ParseIffGrammar ==
    n = 1 =>
        IF IsCmd(line)
        THEN cmd.ok /\ cmd.node = CmdTreeOf(line)
        ELSE ~cmd.ok /\ cmd.exc = CalcParseException

\* a nested line was accepted
C2_Witness ==
    /\ n = 1 /\ cmd.ok /\ cmd.node.type = "Add"
    /\ cmd.node.first.type = "Subtract" /\ cmd.node.second.type = "Number"

-----------------------------------------------------------------------------
(* The Grove grammar of the lines "set <name> = <expr>" with a one-token    *)
(* expression: Number, Name or StringLiteral                                *)

IsGroveName(t) ==
    /\ Len(t) > 0
    /\ \A i \in 1..Len(t) : IsAlphaChar(t[i]) \/ IsDigitChar(t[i]) \/ t[i] = "_"
    /\ ~IsDigitChar(t[1])
    /\ t \notin protected_names

IsGroveString(t) ==
    /\ Len(t) >= 2 /\ t[1] = "\"" /\ t[Len(t)] = "\""
    /\ \A i \in 2..(Len(t) - 1) : t[i] # "\""

IsGroveSetLine(s) ==
    /\ Len(s) = 4 /\ s[1] = kwSet /\ IsGroveName(s[2]) /\ s[3] = EQ
    /\ (isdigit(s[4]) \/ IsGroveName(s[4]) \/ IsGroveString(s[4]))

IsCalcSetLine(s) ==
    Len(s) >= 4 /\ s[1] = kwSet /\ isalpha(s[2]) /\ s[3] = EQ /\ IsExpr(SubSeq(s, 4, Len(s)))

\* C6: a line "set <valid name> = <valid expression>" is parsed into an
\* assignment node (Set, Assignment), and an expression node is returned only
\* when the statement parse has failed on the line, in calc and in Grove
C6_StatementFirst ==
    n = 1 =>
        /\ IsCalcSetLine(line) => cmd.ok /\ cmd.node.type = "Set"
        /\ (cmd.ok /\ cmd.node.type # "Set") => ~Statement_parse(line).ok
        /\ IsGroveSetLine(line) => groveCmd.ok /\ groveCmd.node.type = "Assignment"
        /\ (groveCmd.ok /\ groveCmd.node.type \notin {"Assignment", "Import", "Terminate"})
              => ~Grove_Statement_parse(line).ok

\* C7: Grove Command.parse returns a node or raises GroveParseException
C7_OnlyParseException ==
    n = 1 => (groveCmd.ok \/ groveCmd.exc = GroveParseException)

\* the identifiers of the Name nodes of a Grove node
RECURSIVE GroveNames(_)
GroveNames(node) ==
    IF node.type = "Name" THEN {node.name}
    ELSE IF node.type = "Assignment" THEN {node.name.name} \cup GroveNames(node.value)
    ELSE IF node.type = "Import" THEN {node.names[i].name : i \in 1..Len(node.names)}
    ELSE IF node.type = "Call"
         THEN {node.obj.name, node.met.name}
              \cup UNION {GroveNames(node.expr[i]) : i \in 1..Len(node.expr)}
    ELSE {}

\* C9: no Grove parse produces a Name whose identifier is a reserved word
C9_NoReservedName ==
    (n = 1 /\ groveCmd.ok) => GroveNames(groveCmd.node) \cap protected_names = {}

\* a reserved word in the target position was rejected
C9_Witness ==
    /\ n = 1 /\ line = <<kwSet, kwQuit, EQ, t007>>
    /\ ~groveCmd.ok /\ groveCmd.exc = GroveParseException

-----------------------------------------------------------------------------
(* The closing parenthesis of a slice, stated by counting *)

CountTok(s, t) == Cardinality({i \in 1..Len(s) : s[i] = t})

Balanced(s) ==
    /\ CountTok(s, LP) = CountTok(s, RP)
    /\ \A k \in 1..Len(s) : CountTok(SubSeq(s, 1, k), LP) >= CountTok(SubSeq(s, 1, k), RP)

\* the ) at 0-based index j closes the ( at index 0
Closes(tokens, j) ==
    /\ Len(tokens) >= 2 /\ tokens[1] = LP
    /\ 1 <= j /\ j < Len(tokens)
    /\ tokens[j + 1] = RP
    /\ Balanced(SubSeq(tokens, 2, j))

\* C8: match_parens returns the index of the ) that closes the initial (,
\* whatever follows it, and raises the parse exception when there is none
C8_MatchParens ==
    pc = "done" =>
        IF \E j \in 0..(Len(line) - 1) : Closes(line, j)
        THEN /\ mp.ok /\ Closes(line, mp.idx)
             /\ match_parens(SubSeq(line, 1, mp.idx + 1), ParseExceptionOf(dialect)) = mp
        ELSE ~mp.ok /\ mp.exc = ParseExceptionOf(dialect)

\* a nested group followed by more tokens was matched
C8_Witness ==
    /\ pc = "done" /\ mp.ok /\ mp.idx = 3
    /\ line[2] = LP /\ Len(line) > 4

\* the scan and the operator the parsers call agree
ScanAgrees ==
    pc = "done" => mp = match_parens(line, ParseExceptionOf(dialect))

-----------------------------------------------------------------------------
(* Session claims *)

\* C1: a set command that completes yields None, a later bare name command
\* yields the value its latest set computed, and the scenario of four
\* commands yields None, 38, None, 60, with both calc parsers
C1_SetThenName ==
    /\ (cmd.ok /\ cmd.node.type = "Set" /\ out.kind # "raise") => out.kind = "none"
    /\ (sepCmd.ok /\ sepCmd.node.type = "Stmt" /\ sepOut.kind # "raise") => sepOut.kind = "none"
    /\ (n >= 1 /\ Len(line) = 1 /\ line[1] \in DOMAIN lastSet)
          => out = Value(lastSet[line[1]])
    /\ (n >= 1 /\ Len(line) = 1 /\ line[1] \in DOMAIN sepLastSet)
          => sepOut = Value(sepLastSet[line[1]])
    /\ scn = Len(Scenario)
          => /\ scnOut = <<NoneOut(0), Value(38), NoneOut(0), Value(60)>>
             /\ scnSepOut = <<NoneOut(0), Value(38), NoneOut(0), Value(60)>>

\* the names of the Name leaves of a calc expression that ctx does not bind,
\* left to right
RECURSIVE UnboundLeaves(_, _)
UnboundLeaves(node, ctx) ==
    IF node.type = "Number" THEN <<>>
    ELSE IF node.type = "Name"
         THEN IF node.name \in DOMAIN ctx THEN <<>> ELSE <<node.name>>
    ELSE UnboundLeaves(node.first, ctx) \o UnboundLeaves(node.second, ctx)

\* C3: evaluating an expression with an unbound Name leaf raises the
\* evaluation exception of the dialect (for the leftmost such leaf), returns
\* no value and binds nothing; "+ ( nope ) ( 3 )" parses and fails at evaluation
C3_UnboundNameRaises ==
    [][ /\ (cmd'.ok /\ cmd'.node.type # "Set" /\ UnboundLeaves(cmd'.node, context) # <<>>)
            => /\ out' = Raised(0, CalcEvalException, Head(UnboundLeaves(cmd'.node, context)))
               /\ context' = context
        /\ (line' = <<PLUS, LP, nope, RP, LP, t3, RP>> /\ nope \notin DOMAIN context)
            => cmd'.ok /\ out'.exc = CalcEvalException
        /\ (~groveExited /\ groveCmd'.ok /\ groveCmd'.node.type = "Name"
                /\ groveCmd'.node.name \notin DOMAIN gcontext)
            => /\ groveOut' = Raised(PyNone, GroveEvalException, groveCmd'.node.name)
               /\ gcontext' = gcontext
      ]_vars

\* an unbound name was evaluated by calc and by Grove in a non-empty environment
C3_Witness ==
    /\ line = <<nope>> /\ foo \in DOMAIN context /\ foo \in DOMAIN gcontext
    /\ out.exc = CalcEvalException /\ groveOut.exc = GroveEvalException

\* the value of an expression as the sum of its leaves, each negated once for
\* every subtrahend position above it
RECURSIVE SignedSum(_, _, _)
SignedSum(node, ctx, sign) ==
    IF node.type = "Number" THEN sign * node.num
    ELSE IF node.type = "Name" THEN sign * ctx[node.name]
    ELSE IF node.type = "Add"
         THEN SignedSum(node.first, ctx, sign) + SignedSum(node.second, ctx, sign)
    ELSE SignedSum(node.first, ctx, sign) + SignedSum(node.second, ctx, 0 - sign)

\* C4: an Add/Subtract tree over Numbers and bound Names evaluates to the
\* integer combination of its leaves, Subtract(Subtract(a,b),c) to a - b - c,
\* and an Add/Subtract fails only with the failure of a child, the left first
C4_EvalArithmetic ==
    (n = 1 /\ cmd.ok /\ cmd.node.type # "Set") =>
        /\ UnboundLeaves(cmd.node, context) = <<>>
              => out = Value(SignedSum(cmd.node, context, 1))
        /\ (cmd.node.type = "Subtract" /\ cmd.node.first.type = "Subtract"
                /\ UnboundLeaves(cmd.node, context) = <<>>)
              => out.val = Expression_eval(cmd.node.first.first, context).val
                           - Expression_eval(cmd.node.first.second, context).val
                           - Expression_eval(cmd.node.second, context).val
        /\ (cmd.node.type \in {"Add", "Subtract"} /\ out.kind = "raise")
              => LET first == Expression_eval(cmd.node.first, context)
                     second == Expression_eval(cmd.node.second, context)
                 IN IF first.kind = "raise" THEN out = first
                    ELSE second.kind = "raise" /\ out = second

\* a nested subtraction over bound names was evaluated
C4_Witness ==
    /\ n = 1 /\ cmd.ok /\ cmd.node.type = "Subtract"
    /\ cmd.node.first.type = "Subtract" /\ cmd.node.first.second.type = "Name"
    /\ cmd.node.second.type = "Name"
    /\ out.kind = "value" /\ out.val = -79

\* C5: a Set (Stmt) whose value evaluates binds the name to that value,
\* overwriting a prior binding, returns None and changes no other binding
C5_SetBindsOnlyItsName ==
    [][ /\ (cmd'.ok /\ cmd'.node.type = "Set"
                /\ Expression_eval(cmd'.node.value, context).kind = "value")
            => /\ out'.kind = "none"
               /\ DOMAIN context' = DOMAIN context \cup {cmd'.node.name.name}
               /\ context'[cmd'.node.name.name] = Expression_eval(cmd'.node.value, context).val
               /\ \A k \in DOMAIN context \ {cmd'.node.name.name} : context'[k] = context[k]
        /\ (sepCmd'.ok /\ sepCmd'.node.type = "Stmt"
                /\ Expr_eval(sepCmd'.node.expr, var_table).kind = "value")
            => /\ sepOut'.kind = "none"
               /\ DOMAIN var_table' = DOMAIN var_table \cup {sepCmd'.node.name.val}
               /\ var_table'[sepCmd'.node.name.val] = Expr_eval(sepCmd'.node.expr, var_table).val
               /\ \A k \in DOMAIN var_table \ {sepCmd'.node.name.val} : var_table'[k] = var_table[k]
      ]_vars

\* foo, bound to 38, was rebound to 38 + -3 while bar kept -3
C5_Witness ==
    /\ line = <<kwSet, foo, EQ, PLUS, LP, foo, RP, LP, bar, RP>>
    /\ out.kind = "none" /\ sepOut.kind = "none"
    /\ context[foo] = 35 /\ context[bar] = -3
    /\ var_table[foo] = 35 /\ var_table[bar] = -3

\* C10: after Grove Assignment(Name(n), Number(v)).eval(), Name(n).eval() returns v
C10_AssignThenName ==
    (groveCmd.ok /\ groveCmd.node.type = "Assignment"
        /\ groveCmd.node.value.type = "Number" /\ groveOut.kind = "none")
      => Grove_Name_eval(groveCmd.node.name, gcontext) = Value(PyInt(groveCmd.node.value.num))


-----------------------------------------------------------------------------
(* Grove statements and expressions, stated from the grammar *)

\* import <name> ( . <name> )*
IsImportLine(s) ==
    /\ Len(s) >= 2 /\ s[1] = kwImport /\ Len(s) % 2 = 0
    /\ \A i \in 2..Len(s) : IF i % 2 = 0 THEN IsGroveName(s[i]) ELSE s[i] = DOT

\* the Import node of an import line
ImportOf(s) == Import([j \in 1..(Len(s) \div 2) |-> Grove_Name(s[2 * j])])

\* C11: a Grove line "import n1 . n2 . ... . nk" of valid names of any length
\* is parsed into Import([Name(n1), ..., Name(nk)]), and every other line
\* that starts with import raises GroveParseException
C11_ImportParse ==
    (n = 1 /\ Len(line) >= 1 /\ line[1] = kwImport) =>
        IF IsImportLine(line) THEN groveCmd = Ok(ImportOf(line))
        ELSE ~groveCmd.ok /\ groveCmd.exc = GroveParseException


\* C12: evaluating an Import whose dotted name is already bound completes
\* without error and leaves the environment unchanged
C12_ImportIdempotent ==
    [][ (n' = n + 1 /\ ~groveExited /\ groveCmd'.ok /\ groveCmd'.node.type = "Import"
            /\ JoinNames(groveCmd'.node.names) \in DOMAIN gcontext)
          => (groveOut'.kind = "none" /\ gcontext' = gcontext)
      ]_vars


\* the components of a token between its dots
RECURSIVE SplitDots(_)
SplitDots(t) ==
    IF \A i \in 1..Len(t) : t[i] # "."  THEN <<t>>
    ELSE LET i == CHOOSE j \in 1..Len(t) : t[j] = "." /\ \A k \in 1..(j - 1) : t[k] # "."
         IN <<SubSeq(t, 1, i - 1)>> \o SplitDots(SubSeq(t, i + 1, Len(t)))

\* new <dotted.path>
IsObjectLine(s) ==
    /\ Len(s) = 2 /\ s[1] = kwNew
    /\ \A j \in 1..Len(SplitDots(s[2])) : IsGroveName(SplitDots(s[2])[j])

\* the Object node of a new line
ObjectOf(s) ==
    Object([j \in 1..Len(SplitDots(s[2])) |-> Grove_Name(SplitDots(s[2])[j])])

\* C13: a Grove line "new <p1.p2...pk>" of two tokens whose path splits into
\* valid names is parsed into an Object node holding those names in order, and
\* every other line that starts with new raises GroveParseException
C13_ObjectParse ==
    (n = 1 /\ Len(line) >= 1 /\ line[1] = kwNew) =>
        IF IsObjectLine(line) THEN groveCmd = Ok(ObjectOf(line))
        ELSE ~groveCmd.ok /\ groveCmd.exc = GroveParseException


\* a one-token Grove expression and its node
IsArgToken(t) == isdigit(t) \/ IsGroveName(t) \/ IsGroveString(t)

ArgNode(t) ==
    IF isdigit(t) THEN Grove_Number(DecimalValue(t))
    ELSE IF IsGroveString(t) THEN StringLiteral(t)
    ELSE Grove_Name(t)

\* call <objName> <methodName> followed by groups "( <expr> )"; the argument
\* expressions of the lines parsed here are single tokens
IsCallLine(s) ==
    /\ Len(s) >= 5 /\ s[1] = kwCall /\ IsGroveName(s[2]) /\ IsGroveName(s[3])
    /\ (Len(s) - 3) % 3 = 0
    /\ \A g \in 1..((Len(s) - 3) \div 3) :
          s[3 * g + 1] = LP /\ IsArgToken(s[3 * g + 2]) /\ s[3 * g + 3] = RP

\* the Call node of a call line
CallOf(s) ==
    Call(Grove_Name(s[2]), Grove_Name(s[3]),
         [g \in 1..((Len(s) - 3) \div 3) |-> ArgNode(s[3 * g + 2])])

\* C14: a Grove line "call <objName> <methodName> ( <expr> ) ( <expr> ) ..."
\* is parsed into a Call node with the object name, the method name and the
\* argument expressions in order, and a line with a malformed argument is not
\* parsed into a Call with fewer arguments
C14_CallParse ==
    (n = 1 /\ Len(line) >= 1 /\ line[1] = kwCall) =>
        IF IsCallLine(line) THEN groveCmd = Ok(CallOf(line))
        ELSE ~(groveCmd.ok /\ groveCmd.node.type = "Call")


\* C15: a single Grove token that begins and ends with a quote and has no
\* embedded quote is parsed into a StringLiteral node whose eval returns the
\* literal and leaves the environment alone; a single token with a leading
\* quote that lacks the trailing quote or embeds a quote raises
\* GroveParseException
C15_StringLiteral ==
    (n = 1 /\ Len(line) = 1 /\ Len(line[1]) >= 1 /\ line[1][1] = "\"") =>
        IF IsGroveString(line[1])
        THEN /\ groveCmd = Ok(StringLiteral(line[1]))
             /\ groveOut = Value(PyStr(line[1]))
             /\ gcontext = EmptyEnv
        ELSE ~groveCmd.ok /\ groveCmd.exc = GroveParseException


-----------------------------------------------------------------------------
(* Sessions *)

\* C16: Grove Command.parse returns a Terminate node exactly for the one-token
\* lines quit and exit, and evaluating it ends the session with an outcome
\* that is neither a value nor GroveEvalException and leaves the environment
\* unchanged
C16_Terminate ==
    [][ (n' = n + 1 /\ ~groveExited) =>
          /\ (groveCmd'.ok /\ groveCmd'.node.type = "Terminate")
                <=> line' \in {<<kwQuit>>, <<kwExit>>}
          /\ line' \in {<<kwQuit>>, <<kwExit>>} =>
                /\ groveCmd' = Ok(Terminate)
                /\ groveOut'.kind = "raise" /\ groveOut'.exc = "SystemExit"
                /\ groveOut'.exc # GroveEvalException
                /\ gcontext' = gcontext
                /\ groveExited'
      ]_vars

\* exit was read with foo bound, and the binding is still there
C16_Witness ==
    /\ line = <<kwExit>> /\ groveExited
    /\ groveCmd = Ok(Terminate) /\ groveOut.exc = "SystemExit"
    /\ foo \in DOMAIN gcontext /\ gcontext[foo] = PyTagged(PyInt(38))


\* C17: in calc.py main a command that fails with CalcParseException or
\* CalcEvalException is reported and the loop goes on to read the next line;
\* bindings made by earlier commands persist until a later set of the same
\* name; the loop ends only when the line read is :done, and then it ends
C17_MainLoop ==
    [][ /\ (pc = "read" /\ n' = n + 1) =>
              /\ out'.kind = "raise" =>
                    /\ out'.exc \in {CalcParseException, CalcEvalException}
                    /\ reported' = reported + 1
              /\ out'.kind # "raise" => reported' = reported
              /\ pc' = "read"
              /\ line' # DoneLine
              /\ \A k \in DOMAIN context :
                    /\ k \in DOMAIN context'
                    /\ context'[k] # context[k] =>
                          /\ cmd'.ok /\ cmd'.node.type = "Set"
                          /\ cmd'.node.name.name = k /\ out'.kind = "none"
        /\ pc' # "crashed"
        /\ (pc = "read" /\ pc' # "read") => (pc' = "exited" /\ line' = DoneLine)
        /\ (pc = "read" /\ line' = DoneLine /\ line # DoneLine) => pc' = "exited"
      ]_vars

\* "+ ( foo ) ( nope )" failed on nope, so after foo was set; the error was
\* reported, foo is still bound and main is reading the next line
C17_Witness ==
    /\ pc = "read" /\ reported >= 1 /\ n >= 2
    /\ line = <<PLUS, LP, foo, RP, LP, nope, RP>>
    /\ out = Raised(0, CalcEvalException, nope)
    /\ foo \in DOMAIN context /\ context[foo] = 38


\* C18: when the right-hand side of an assignment fails to evaluate (calc Set,
\* separate-parser Stmt, Grove Assignment) the error is the command's outcome
\* and the environment is left as it was before the command
C18_FailedValueKeepsEnv ==
    [][ n' = n + 1 =>
          /\ (cmd'.ok /\ cmd'.node.type = "Set"
                  /\ Expression_eval(cmd'.node.value, context).kind = "raise")
              => /\ out' = Expression_eval(cmd'.node.value, context)
                 /\ context' = context
          /\ (sepCmd'.ok /\ sepCmd'.node.type = "Stmt"
                  /\ Expr_eval(sepCmd'.node.expr, var_table).kind = "raise")
              => /\ sepOut' = Expr_eval(sepCmd'.node.expr, var_table)
                 /\ var_table' = var_table
          /\ (~groveExited /\ groveCmd'.ok /\ groveCmd'.node.type = "Assignment"
                  /\ Grove_Expression_eval(groveCmd'.node.value, gcontext).kind = "raise")
              => /\ groveOut' = Grove_Expression_eval(groveCmd'.node.value, gcontext)
                 /\ gcontext' = gcontext
      ]_vars

\* "set foo = nope" failed in the three interpreters with foo bound before,
\* and foo kept its value
C18_Witness ==
    /\ line = <<kwSet, foo, EQ, nope>>
    /\ foo \in DOMAIN context /\ foo \in DOMAIN var_table /\ foo \in DOMAIN gcontext
    /\ out = Raised(0, CalcEvalException, nope) /\ context[foo] = 38
    /\ sepOut = Raised(0, "KeyError", nope) /\ var_table[foo] = 38
    /\ groveOut = Raised(PyNone, GroveEvalException, nope)
    /\ gcontext[foo] = PyTagged(PyInt(38))


-----------------------------------------------------------------------------
(* The depth counter of match_parens *)

\* ( minus ) among the first k tokens
DepthOfPrefix(tokens, k) ==
    CountTok(SubSeq(tokens, 1, k), LP) - CountTok(SubSeq(tokens, 1, k), RP)

\* C19: in a match_parens scan that passed the entry checks the depth counter
\* is never negative, is at least 1 after each token before the returned
\* index, and is 0 for the first time at the returned index
C19_DepthCounter ==
    /\ depth >= 0
    /\ pc = "loop" =>
          /\ depth = DepthOfPrefix(line, scanI)
          /\ scanI >= 1 => depth >= 1
    /\ (pc = "done" /\ mp.ok) =>
          /\ depth = 0 /\ scanI = mp.idx
          /\ DepthOfPrefix(line, mp.idx + 1) = 0
          /\ \A k \in 1..mp.idx : DepthOfPrefix(line, k) >= 1

\* the scan of "( ( x ) )" has been two deep and has returned index 4
C19_Witness ==
    /\ pc = "done" /\ mp.ok /\ mp.idx = 4 /\ depth = 0
    /\ SubSeq(line, 1, 5) = <<LP, LP, x, RP, RP>>


-----------------------------------------------------------------------------
(* Grove names *)

\* C20: Grove Name.parse accepts a token only if it consists of alphanumeric
\* characters and _ and starts with an alphabetic character or _: a token that
\* starts with a digit is rejected with GroveParseException, and an otherwise
\* valid token that starts with _ is accepted
C20_NameCharacters ==
    n = 1 =>
        /\ groveCmd.ok => \A t \in GroveNames(groveCmd.node) : IsGroveName(t)
        /\ (Len(line) = 1 /\ Len(line[1]) >= 1 /\ IsDigitChar(line[1][1]) /\ ~isdigit(line[1]))
              => ~groveCmd.ok /\ groveCmd.exc = GroveParseException
        /\ (Len(line) = 1 /\ IsGroveName(line[1]) /\ line[1][1] = "_")
              => groveCmd = Ok(Grove_Name(line[1]))


-----------------------------------------------------------------------------
\* C21: on a one-token line each calc parser returns a Number node (Number,
\* Num) iff every character of the token is a digit, so both accept the same
\* tokens, and both nodes hold the integer the digits denote
C21_NumberTokens ==
    (n = 1 /\ Len(line) = 1) =>
        /\ (cmd.ok /\ cmd.node.type = "Number") <=> isdigit(line[1])
        /\ (sepCmd.ok /\ sepCmd.node.type = "Num") <=> isdigit(line[1])
        /\ isdigit(line[1]) =>
              /\ cmd.node.num = DecimalValue(line[1])
              /\ sepCmd.node.val = DecimalValue(line[1])


-----------------------------------------------------------------------------
\* C22: in both calc interpreters a command whose line fails to parse, or
\* parses into an expression node (Number, Name, Add, Subtract), leaves the
\* environment as it was whether its evaluation returns or raises; the
\* environment changes only in the evaluation of a Set/Stmt node; and the
\* parse result is the one the line alone determines, whatever the
\* environment holds
C22_ParseAndExprFrame ==
    [][(pc = "read" /\ n' = n + 1) =>
          /\ cmd' = Command_parse(line')
          /\ sepCmd' = parse(line')
          /\ (~cmd'.ok \/ cmd'.node.type # "Set") => context' = context
          /\ (~sepCmd'.ok \/ sepCmd'.node.type # "Stmt") => var_table' = var_table
          /\ context' # context =>
                cmd'.ok /\ cmd'.node.type = "Set" /\ out'.kind = "none"
          /\ var_table' # var_table =>
                sepCmd'.ok /\ sepCmd'.node.type = "Stmt" /\ sepOut'.kind = "none"]_vars

\* after two set commands an expression over an unbound name has been parsed
\* and has raised, and both environments still hold the two bindings
C22_Witness ==
    /\ n >= 3
    /\ line = <<PLUS, LP, nope, RP, LP, t3, RP>>
    /\ cmd.ok /\ cmd.node.type = "Add" /\ out.kind = "raise"
    /\ sepCmd.ok /\ sepCmd.node.type = "Addition" /\ sepOut.kind = "raise"
    /\ DOMAIN context = {foo, bar} /\ context = lastSet
    /\ DOMAIN var_table = {foo, bar} /\ var_table = sepLastSet

====
